---- MODULE Spec2Model ----
(***************************************************************************)
(* SiPixelClusterProducer (RecoLocalTracker/SiPixelClusterizer): the       *)
(* per-event orchestration that iterates the detector units of a           *)
(* PixelDigiCollection, resolves each unit's geometry, runs the            *)
(* clusterizer on the unit's digis and packs the non-empty results into a  *)
(* SiPixelClusterCollection.                                               *)
(*                                                                         *)
(* src/src/SiPixelClusterProducer.cc is the only translation unit.  The    *)
(* two collection types (DataFormats), the geometry and the clusterizer    *)
(* (PixelThresholdClusterizer) are used through their interfaces only;     *)
(* they are modelled from the specification's description of them.         *)
(***************************************************************************)
EXTENDS Integers, Sequences, FiniteSets, TLC

(* ------------------------------ bounds -------------------------------- *)

\* detector-unit identifiers are 1..NumDets
NumDets == 2
\* pixel channels of one detector unit are 1..NumChannels
NumChannels == 3

DetIds == 1..NumDets
Channels == 1..NumChannels

(* ------------------------- program constants -------------------------- *)

\* std::vector<float> noiseVec(768,2)
NoiseVecSize == 768
NoiseVecValue == 2

Supported == "PixelThresholdClusterizer"
Unset == "<unset>"
\* the values the ClusterMode parameter takes in the model
ConfModes == {Unset, Supported, "None"}

\* a null pointer to a detector unit (a failed idToDetUnit / dynamic_cast)
NULL == 0
\* clusterizer_(0): no clusterizer
NoClusterizer == <<>>
\* new PixelThresholdClusterizer(conf_)
newPixelThresholdClusterizer(conf) == <<Supported>>

VARIABLES
    NDEBUG,            \* build: TRUE when assert() is compiled out
    conf_,             \* the ParameterSet (the ClusterMode parameter)
    clusterMode_,
    clusterizer_,
    readyToCluster_,
    setupLog,          \* what setupClusterizer() reported
    pc,                \* position of the module: ctor, idle, loop, ret, done, aborted
    input,             \* the event's PixelDigiCollection
    geom,              \* the detector units the TrackerGeometry knows as pixel units
    output,            \* produce()'s local output collection
    detIDs,            \* run()'s local copy of input->detIDs()
    detunit_it,        \* index into detIDs
    numberOfDetUnits,
    numberOfClusters,
    calls,             \* the calls run() made on its collaborators, in order
    report,            \* what was reported during this event
    product,           \* the collection handed to the event by e.put()
    previous           \* the product of the first processing of a replayed event

vars == <<NDEBUG, conf_, clusterMode_, clusterizer_, readyToCluster_, setupLog,
          pc, input, geom, output, detIDs, detunit_it, numberOfDetUnits,
          numberOfClusters, calls, report, product, previous>>

members == <<conf_, clusterMode_, clusterizer_, readyToCluster_, setupLog>>

(* --------------------------- pure helpers ----------------------------- *)

RECURSIVE SortedSeq(_)
\* the elements of a finite set of integers in ascending order
SortedSeq(S) ==
    IF S = {} THEN <<>>
    ELSE LET m == CHOOSE x \in S : \A y \in S : x <= y
         IN <<m>> \o SortedSeq(S \ {m})

\* a unit's digis: one digi per hit channel, ascending by channel
DigiRanges == {SortedSeq(S) : S \in SUBSET Channels}

\* a finite collection has no entry for an absent unit
Absent == <<0>>

(* ------------------- Range-Keyed Store (collections) ------------------ *)

EmptyStore == [container |-> <<>>, index |-> <<>>]

\* put(range, key): append the range, record key -> [first, last]
put(store, range, key) ==
    [container |-> store.container \o range,
     index |-> Append(store.index,
                      [key |-> key,
                       first |-> Len(store.container) + 1,
                       last |-> Len(store.container) + Len(range)])]

\* detIDs(): the keys present, in insertion order
storeIDs(store) == [i \in 1..Len(store.index) |-> store.index[i].key]

\* get(key): the stored range of key, empty when key was never inserted
get(store, key) ==
    IF \E i \in 1..Len(store.index) : store.index[i].key = key
    THEN LET i == CHOOSE j \in 1..Len(store.index) :
                     /\ store.index[j].key = key
                     /\ \A l \in 1..(j-1) : store.index[l].key # key
         IN SubSeq(store.container, store.index[i].first, store.index[i].last)
    ELSE <<>>

\* the input collections: every subset of units, each with a digi range
Inputs ==
    {[ids |-> SortedSeq({k \in DetIds : f[k] # Absent}),
      digis |-> [k \in DetIds |-> IF f[k] = Absent THEN <<>> ELSE f[k]]] :
        f \in [DetIds -> DigiRanges \cup {Absent}]}

NoInput == [ids |-> <<>>, digis |-> [k \in DetIds |-> <<>>]]

\* input->detIDs()
inputDetIDs(in) == in.ids
\* input->get(detid)
inputGet(in, detid) == in.digis[detid]

(* ----------------------------- geometry ------------------------------- *)

\* geom->idToDetUnit(DetId(detid)) followed by the dynamic_cast to
\* PixelGeomDetUnit: the unit's descriptor, or NULL
idToDetUnit(g, detid) == IF detid \in g THEN detid ELSE NULL

(* ---------------------------- clusterizer ----------------------------- *)

\* clusterizeDetUnit: one cluster per maximal group of adjacent channels,
\* in ascending channel order; deterministic in its arguments
clusterizeDetUnit(range, detid, pixDet, noiseVec, badChannels) ==
    LET starts == {i \in 1..Len(range) : i = 1 \/ range[i] # range[i-1] + 1}
        ends   == {i \in 1..Len(range) : i = Len(range) \/ range[i+1] # range[i] + 1}
        s == SortedSeq(starts)
        e == SortedSeq(ends)
    IN [i \in 1..Len(s) |-> [det |-> detid, first |-> range[s[i]], last |-> range[e[i]]]]

(* ------------------------------ reports ------------------------------- *)

\* edm::LogError of setupClusterizer(): the invalid choice and the possible ones
InvalidChoice(mode) ==
    [kind |-> "LogError: choice is invalid", mode |-> mode, choices |-> {Supported},
     clusters |-> 0, dets |-> 0, detid |-> NULL]

\* edm::LogError of run(): "at least one clusterizer is not ready -- can't run!"
NotReady ==
    [kind |-> "LogError: clusterizer is not ready", mode |-> "", choices |-> {},
     clusters |-> 0, dets |-> 0, detid |-> NULL]

\* LogDebug of run(): "Executing <mode> resulted in <n> SiPixelClusters in <m> DetUnits."
Summary(mode, nClusters, nDetUnits) ==
    [kind |-> "LogDebug: summary", mode |-> mode, choices |-> {},
     clusters |-> nClusters, dets |-> nDetUnits, detid |-> NULL]

\* what a failed assert(0) prints: the expression, the file and the line; no detid
AssertionFailed ==
    [kind |-> "Assertion `0' failed", mode |-> "", choices |-> {},
     clusters |-> 0, dets |-> 0, detid |-> NULL]

(* ----------------------- the producer's own code ---------------------- *)

\* conf_.getUntrackedParameter<std::string>(name, default)
getUntrackedParameter(conf, name, default) ==
    IF conf[name] = Unset THEN default ELSE conf[name]

\* a comparison that accepts every non-empty name
isKnownMode_nonEmpty(mode) == mode # ""

\* if ( clusterMode_ == "PixelThresholdClusterizer" )
isKnownMode(mode) == mode = Supported

\* setupClusterizer(): the members it leaves and what it reports
setupClusterizer(conf) ==
    LET mode == getUntrackedParameter(conf, "ClusterMode", Supported)
    IN IF isKnownMode(mode)
       THEN [clusterMode_ |-> mode, clusterizer_ |-> newPixelThresholdClusterizer(conf),
             readyToCluster_ |-> TRUE, log |-> <<>>]
       ELSE [clusterMode_ |-> mode, clusterizer_ |-> NoClusterizer,
             readyToCluster_ |-> FALSE, log |-> <<InvalidChoice(mode)>>]

\* a gate that never bails out
bailOut_never(ready) == FALSE

\* if ( ! readyToCluster_ ) ... return
bailOut(ready) == ~ready

\* an output that is reused from the earlier processing without being emptied
newOutput_stale(stale) == stale

\* std::auto_ptr<SiPixelClusterCollection> output(new SiPixelClusterCollection):
\* a new collection is empty whatever an earlier event's collection held
newOutput(stale) == EmptyStore

\* const std::vector<unsigned int> detIDs = input->detIDs()
runDetIDs(in) == inputDetIDs(in)

\* a loop that does not advance
nextDetUnit_stay(it) == it

\* ++detunit_it
nextDetUnit(it) == it + 1

\* ++numberOfDetUnits
countDetUnit(n) == n + 1

\* a filter that lets empty results through
isFullDet_always(clusters) == TRUE

\* if(clustersOnDetUnit.size()>0)
isFullDet(clusters) == Len(clusters) > 0

\* a range that starts one record late
inputRange_late(clusters) == SubSeq(clusters, 2, Len(clusters))

\* inputRange.first = clustersOnDetUnit.begin(); inputRange.second = ...end()
inputRange(clusters) == clusters

\* a count of the units with clusters instead of the clusters
countClusters_units(n, clusters) == n + 1

\* numberOfClusters += clustersOnDetUnit.size()
countClusters(n, clusters) == n + Len(clusters)

(* ------------------------------- calls -------------------------------- *)

CallResolve(detid, pixDet) ==
    [fn |-> "idToDetUnit", detid |-> detid, range |-> <<>>, pixDet |-> pixDet,
     result |-> <<>>]

CallClusterize(detid, range, pixDet, result) ==
    [fn |-> "clusterizeDetUnit", detid |-> detid, range |-> range, pixDet |-> pixDet,
     result |-> result]

CallPut(detid, range) ==
    [fn |-> "put", detid |-> detid, range |-> range, pixDet |-> NULL, result |-> <<>>]

(* ------------------------------ actions ------------------------------- *)

Init ==
    /\ NDEBUG \in BOOLEAN
    /\ conf_ \in [{"ClusterMode"} -> ConfModes]
    /\ clusterMode_ = "None"
    /\ clusterizer_ = NoClusterizer
    /\ readyToCluster_ = FALSE
    /\ setupLog = <<>>
    /\ pc = "ctor"
    /\ input = NoInput
    /\ geom = {}
    /\ output = EmptyStore
    /\ detIDs = <<>>
    /\ detunit_it = 0
    /\ numberOfDetUnits = 0
    /\ numberOfClusters = 0
    /\ calls = <<>>
    /\ report = <<>>
    /\ product = <<>>
    /\ previous = <<>>

event == <<input, geom, output, detIDs, detunit_it, numberOfDetUnits,
           numberOfClusters, calls, report, product, previous>>

\* the constructor's body: setupClusterizer()
Construct ==
    /\ pc = "ctor"
    /\ LET s == setupClusterizer(conf_)
       IN /\ clusterMode_' = s.clusterMode_
          /\ clusterizer_' = s.clusterizer_
          /\ readyToCluster_' = s.readyToCluster_
          /\ setupLog' = s.log
    /\ pc' = "idle"
    /\ UNCHANGED <<NDEBUG, conf_, event>>

\* produce() up to the loop of run(): the input and the geometry are fetched,
\* the output is created, run() checks the gate and sets up its locals
Enter(in, g) ==
    /\ input' = in
    /\ geom' = g
    /\ output' = newOutput(output)
    /\ calls' = <<>>
    /\ product' = <<>>
    /\ IF bailOut(readyToCluster_)
       THEN /\ report' = <<NotReady>>
            /\ pc' = "ret"
            /\ UNCHANGED <<detIDs, detunit_it, numberOfDetUnits, numberOfClusters>>
       ELSE /\ report' = <<>>
            /\ numberOfDetUnits' = 0
            /\ numberOfClusters' = 0
            /\ detIDs' = runDetIDs(in)
            /\ detunit_it' = 1
            /\ pc' = "loop"
    /\ UNCHANGED <<NDEBUG, members>>

Produce ==
    /\ pc = "idle"
    /\ \E in \in Inputs, g \in SUBSET DetIds : Enter(in, g)
    /\ previous' = <<>>

\* the framework processes the same event once more (same input, same geometry)
ProduceAgain ==
    /\ pc = "done"
    /\ previous = <<>>
    /\ Enter(input, geom)
    /\ previous' = product

\* one pass of the loop over detunits
LoopBody ==
    /\ pc = "loop"
    /\ detunit_it <= Len(detIDs)
    /\ LET detid     == detIDs[detunit_it]
           digiRange == inputGet(input, detid)
           pixDet    == idToDetUnit(geom, detid)
           resolved  == Append(calls, CallResolve(detid, pixDet))
       IN /\ numberOfDetUnits' = countDetUnit(numberOfDetUnits)
          /\ IF pixDet = NULL /\ ~NDEBUG
             THEN \* assert(0) ends the process
                  /\ pc' = "aborted"
                  /\ calls' = resolved
                  /\ report' = Append(report, AssertionFailed)
                  /\ UNCHANGED <<output, numberOfClusters, detunit_it>>
             ELSE LET clustersOnDetUnit ==
                          clusterizeDetUnit(digiRange, detid, pixDet,
                                            [i \in 1..NoiseVecSize |-> NoiseVecValue], <<>>)
                      clustered == Append(resolved,
                                          CallClusterize(detid, digiRange, pixDet,
                                                         clustersOnDetUnit))
                  IN /\ IF isFullDet(clustersOnDetUnit)
                        THEN /\ numberOfClusters' =
                                    countClusters(numberOfClusters, clustersOnDetUnit)
                             /\ output' = put(output, inputRange(clustersOnDetUnit), detid)
                             /\ calls' = Append(clustered,
                                                CallPut(detid, inputRange(clustersOnDetUnit)))
                        ELSE /\ calls' = clustered
                             /\ UNCHANGED <<output, numberOfClusters>>
                     /\ detunit_it' = nextDetUnit(detunit_it)
                     /\ pc' = "loop"
                     /\ UNCHANGED report
    /\ UNCHANGED <<NDEBUG, members, input, geom, detIDs, product, previous>>

\* the end of the loop: the summary is logged and run() returns
LoopEnd ==
    /\ pc = "loop"
    /\ detunit_it > Len(detIDs)
    /\ report' = Append(report, Summary(clusterMode_, numberOfClusters, numberOfDetUnits))
    /\ pc' = "ret"
    /\ UNCHANGED <<NDEBUG, members, input, geom, output, detIDs, detunit_it,
                   numberOfDetUnits, numberOfClusters, calls, product, previous>>

\* e.put(output)
EventPut ==
    /\ pc = "ret"
    /\ product' = <<output>>
    /\ pc' = "done"
    /\ UNCHANGED <<NDEBUG, members, input, geom, output, detIDs, detunit_it,
                   numberOfDetUnits, numberOfClusters, calls, report, previous>>

\* produce() has returned: its locals are gone, the framework drops the event
EndEvent ==
    /\ pc = "done"
    /\ pc' = "idle"
    /\ input' = NoInput
    /\ geom' = {}
    /\ output' = EmptyStore
    /\ detIDs' = <<>>
    /\ detunit_it' = 0
    /\ numberOfDetUnits' = 0
    /\ numberOfClusters' = 0
    /\ calls' = <<>>
    /\ report' = <<>>
    /\ product' = <<>>
    /\ previous' = <<>>
    /\ UNCHANGED <<NDEBUG, members>>

Next ==
    \/ Construct
    \/ Produce
    \/ ProduceAgain
    \/ LoopBody
    \/ LoopEnd
    \/ EventPut
    \/ EndEvent

Spec == Init /\ [][Next]_vars

(* ===================== properties of the producer ====================== *)

Range(seq) == {seq[i] : i \in DOMAIN seq}

\* the positions in calls of the calls of fn for detector unit k
CallsOf(fn, k) == {i \in DOMAIN calls : calls[i].fn = fn /\ calls[i].detid = k}

\* run() went through its loop and came back
RunCompleted == readyToCluster_ /\ pc \in {"ret", "done"}

\* the clusterizer returned a non-empty sequence for unit k's input range
ReturnedClusters(k) ==
    \E i \in CallsOf("clusterizeDetUnit", k) :
        /\ calls[i].range = inputGet(input, k)
        /\ calls[i].result # <<>>

RECURSIVE TotalReturned(_)
\* the sum of the lengths of the sequences the clusterizer returned in the calls cs
TotalReturned(cs) ==
    IF cs = <<>> THEN 0
    ELSE (IF Head(cs).fn = "clusterizeDetUnit" THEN Len(Head(cs).result) ELSE 0)
         + TotalReturned(Tail(cs))

\* the index entries lie back to back and cover the whole container
Tiled(store) ==
    /\ \A i \in DOMAIN store.index :
          /\ store.index[i].first = (IF i = 1 THEN 1 ELSE store.index[i-1].last + 1)
          /\ store.index[i].first <= store.index[i].last
    /\ Len(store.container) =
          (IF store.index = <<>> THEN 0 ELSE store.index[Len(store.index)].last)

\* run() has met a detector unit of the input that the geometry does not resolve
MismatchHit == \E i \in DOMAIN calls : calls[i].fn = "idToDetUnit" /\ calls[i].pixDet = NULL

\* C1 (key correspondence): when run() has completed with the gate READY,
\* a detector unit is a key of the output exactly when it is enumerated by
\* the input and the clusterizer returned a non-empty sequence for its
\* input range; a unit that is not in the input is never a key.
C1_KeyCorrespondence ==
    RunCompleted =>
        /\ \A k \in DetIds :
              k \in Range(storeIDs(output)) <=>
                  (k \in Range(inputDetIDs(input)) /\ ReturnedClusters(k))
        /\ Range(storeIDs(output)) \subseteq Range(inputDetIDs(input))
        /\ (pc = "done" => product = <<output>>)

C1_Witness ==
    /\ RunCompleted /\ pc = "done"
    /\ \E k \in Range(inputDetIDs(input)) : k \in Range(storeIDs(product[1]))
    /\ \E k \in Range(inputDetIDs(input)) : k \notin Range(storeIDs(product[1]))

\* C2 (contiguity): when run() has completed with the gate READY, get(k) is,
\* for every key k of the output, one contiguous range equal in content and
\* order to the sequence the clusterizer returned for k, the ranges lie back
\* to back with nothing else in the container, and get(k) is empty for every
\* unit that was skipped.
C2_Contiguity ==
    RunCompleted =>
        /\ Tiled(output)
        /\ \A k \in Range(storeIDs(output)) :
              /\ CallsOf("clusterizeDetUnit", k) # {}
              /\ \A i \in CallsOf("clusterizeDetUnit", k) :
                    get(output, k) = calls[i].result
        /\ \A k \in DetIds \ Range(storeIDs(output)) : get(output, k) = <<>>

C2_Witness ==
    /\ RunCompleted /\ pc = "done"
    /\ Len(output.index) >= 2
    /\ Len(get(output, storeIDs(output)[1])) >= 2
    /\ get(output, storeIDs(output)[2]) # <<>>
    /\ get(output, storeIDs(output)[2]) # get(output, storeIDs(output)[1])

\* C3 (gate inertness): a module constructed with an unsupported strategy
\* name makes no call on the geometry or the clusterizer in any event, never
\* enters the loop and never aborts; its run() reports that the clusterizer is
\* not ready and the output it hands to the event is the empty collection.
C3_GateInert ==
    (pc # "ctor" /\ ~readyToCluster_) =>
        /\ calls = <<>>
        /\ output = EmptyStore
        /\ pc \in {"idle", "ret", "done"}
        /\ (pc \in {"ret", "done"} => report = <<NotReady>>)
        /\ (pc = "done" => product = <<EmptyStore>>)

C3_Witness ==
    /\ pc = "done" /\ ~readyToCluster_
    /\ previous # <<>>
    /\ Len(inputDetIDs(input)) >= 2
    /\ \E k \in DetIds : Len(inputGet(input, k)) >= 2
    /\ product = <<EmptyStore>>

\* C4 (geometry mismatch is a hard error): whenever the geometry has not
\* resolved a detector unit of the input, run() has raised a fatal condition
\* that identifies that unit, and the output is not handed to the event.
C4_HardError ==
    \A i \in DOMAIN calls :
        (calls[i].fn = "idToDetUnit" /\ calls[i].pixDet = NULL) =>
            /\ pc = "aborted"
            /\ \E j \in DOMAIN report : report[j].detid = calls[i].detid
            /\ product = <<>>

\* C5 (no duplication): in every state of an event's run(), put() has been
\* called at most once for any detector unit, and when run() has completed
\* every unit with at least one returned cluster has exactly one entry in the
\* output.
C5_NoDuplication ==
    /\ \A k \in DetIds : Cardinality(CallsOf("put", k)) <= 1
    /\ \A k \in DetIds :
          Cardinality({i \in DOMAIN output.index : output.index[i].key = k}) <= 1
    /\ RunCompleted =>
          \A k \in DetIds :
              ReturnedClusters(k) =>
                  Cardinality({i \in DOMAIN output.index : output.index[i].key = k}) = 1

C5_Witness ==
    /\ RunCompleted /\ pc = "done"
    /\ Len(output.index) >= 2
    /\ \A k \in Range(inputDetIDs(input)) : Cardinality(CallsOf("put", k)) = 1

\* C6 (summary counts): when run() has completed with the gate READY, the
\* summary it logged names the strategy, the number of detector units the
\* input enumerates (units without clusters included) and a number of
\* clusters that is the sum of the lengths of the sequences the clusterizer
\* returned and the number of records in the output; an input without units
\* gives zero units, zero clusters and an empty output.
C6_SummaryCounts ==
    RunCompleted =>
        /\ report # <<>>
        /\ LET m == report[Len(report)]
           IN /\ m = Summary(clusterMode_, numberOfClusters, numberOfDetUnits)
              /\ m.dets = Len(inputDetIDs(input))
              /\ m.clusters = TotalReturned(calls)
              /\ m.clusters = Len(output.container)
              /\ (inputDetIDs(input) = <<>> =>
                     m.dets = 0 /\ m.clusters = 0 /\ output = EmptyStore)

C6_Witness ==
    /\ RunCompleted /\ pc = "done"
    /\ report[Len(report)].dets = 2
    /\ report[Len(report)].clusters = 2
    /\ Len(output.index) = 1

\* the strategy name the configuration selects
ConfiguredMode ==
    IF conf_["ClusterMode"] = Unset THEN "PixelThresholdClusterizer"
    ELSE conf_["ClusterMode"]

GateAsConfigured ==
    /\ readyToCluster_ <=> (ConfiguredMode = "PixelThresholdClusterizer")
    /\ clusterMode_ = ConfiguredMode
    /\ readyToCluster_ => (clusterizer_ # NoClusterizer /\ setupLog = <<>>)
    /\ ~readyToCluster_ =>
          (clusterizer_ = NoClusterizer /\ setupLog = <<InvalidChoice(ConfiguredMode)>>)

\* C7 (readiness gate): once constructed, the gate is READY exactly when the
\* configured strategy name is the supported one, NOT_READY with the invalid
\* choice reported otherwise, and no step of produce()/run() changes the gate,
\* the strategy or its name.
C7_ReadinessGate ==
    /\ [](pc # "ctor" => GateAsConfigured)
    /\ [][pc # "ctor" =>
            UNCHANGED <<readyToCluster_, clusterizer_, clusterMode_, setupLog>>]_vars

C7_Witness ==
    /\ pc = "done"
    /\ previous # <<>>
    /\ ~readyToCluster_
    /\ ConfiguredMode = "None"
    /\ input.ids # <<>>

\* C8 (order determinism): a second processing of the same input with the
\* same geometry hands over a collection identical to the first one: the same
\* keys in the same order with the same ranges and the same records.
C8_Deterministic ==
    (pc = "done" /\ previous # <<>>) =>
        /\ product = previous
        /\ storeIDs(product[1]) = storeIDs(previous[1])
        /\ \A k \in DetIds : get(product[1], k) = get(previous[1], k)

C8_Witness ==
    /\ pc = "done" /\ previous # <<>>
    /\ readyToCluster_
    /\ Len(product[1].index) >= 2
    /\ Len(product[1].container) >= 3

\* C9 (error containment): after a geometry mismatch in an event the process
\* is still running with its gate unchanged, and the event in which the
\* mismatch happened is not completed.
C9_ErrorContained ==
    MismatchHit =>
        /\ pc # "aborted"
        /\ pc # "done"
        /\ GateAsConfigured

\* the order of the calls of run(): per detector unit of the input, in
\* enumeration order, the geometry lookup, then one call of the clusterizer with
\* the unit's own digi range and the descriptor the lookup gave, then the
\* unit's put() if there is one
StepOrder ==
    /\ \A i \in DOMAIN calls :
          /\ calls[i].fn = "idToDetUnit" =>
                /\ calls[i].pixDet = idToDetUnit(geom, calls[i].detid)
                /\ (i > 1 => calls[i-1].fn \in {"clusterizeDetUnit", "put"})
          /\ calls[i].fn = "clusterizeDetUnit" =>
                /\ i > 1
                /\ calls[i-1].fn = "idToDetUnit"
                /\ calls[i-1].detid = calls[i].detid
                /\ calls[i].pixDet = calls[i-1].pixDet
                /\ calls[i].range = inputGet(input, calls[i].detid)
          /\ calls[i].fn = "put" =>
                /\ i > 1
                /\ calls[i-1].fn = "clusterizeDetUnit"
                /\ calls[i-1].detid = calls[i].detid
                /\ calls[i].range = calls[i-1].result
    /\ \A k \in DetIds :
          /\ Cardinality(CallsOf("idToDetUnit", k)) <= 1
          /\ Cardinality(CallsOf("clusterizeDetUnit", k)) <= 1
    /\ LET looked == SelectSeq(calls, LAMBDA c : c.fn = "idToDetUnit")
       IN /\ Len(looked) <= Len(inputDetIDs(input))
          /\ \A i \in DOMAIN looked : looked[i].detid = inputDetIDs(input)[i]
    /\ RunCompleted =>
          \A k \in Range(inputDetIDs(input)) :
              Cardinality(CallsOf("clusterizeDetUnit", k)) = 1

\* C10 (per-unit step ordering): the calls of run() are, for the detector
\* units of the input in enumeration order, the geometry lookup of the unit,
\* then one call of the clusterizer with the unit's own digi range and its
\* resolved descriptor, then the unit's put() if there is one; the clusterizer
\* is never called for a unit whose geometry did not resolve.
C10_StepOrder ==
    /\ StepOrder
    /\ \A i \in DOMAIN calls : calls[i].fn = "clusterizeDetUnit" => calls[i].pixDet # NULL

====
